---- MODULE Spec2Model ----
(***************************************************************************)
(* State-machine model of the Gun.js account front-end:                    *)
(*   db_core.js      initGunDB, registerUser, loginUser, logoutUser,       *)
(*                   checkLoginStatus, saveUserProfile, loadUserProfile,   *)
(*                   updateUserProfileField                                *)
(*   db_features.js  verifyRecoveryCredentials, recover*,                  *)
(*                   verifyCurrentCredentialsForChange, change*Permanently *)
(*                                                                         *)
(* One action is one browser task: a call of an exported function up to    *)
(* the point where it hands a callback to the library, or one library      *)
(* callback together with the promise continuations (microtasks) it        *)
(* triggers.  Tasks of different calls interleave freely.                  *)
(*                                                                         *)
(* JavaScript strings are sequences of one-character strings, so that      *)
(* .length and .includes are computed; objects are records whose domain    *)
(* is the set of their own properties.                                     *)
(***************************************************************************)
EXTENDS Integers, Sequences, FiniteSets

\* ------------------------------------------------------------------------
\* JavaScript values
\* ------------------------------------------------------------------------

\* null (of an object-valued variable)
Null == [null |-> TRUE]

\* undefined (a missing property or argument); not a string for typeof
Undefined == <<"\\undefined">>

\* typeof v === 'string'
IsString(v) == v # Undefined

\* s.includes(c)
Includes(s, c) == \E i \in 1..Len(s) : s[i] = c

\* JavaScript truthiness of a string-or-undefined value
Truthy(v) == v # Undefined /\ Len(v) > 0

\* own properties of an object; spreading null contributes none
Keys(o) == IF o = Null THEN {} ELSE DOMAIN o

\* { ...a, ...b }
Spread(a, b) == [k \in Keys(a) \cup Keys(b) |-> IF k \in Keys(b) THEN b[k] ELSE a[k]]

\* o.k for a non-null object o
Get(o, k) == IF k \in Keys(o) THEN o[k] ELSE Undefined

\* ------------------------------------------------------------------------
\* Bounds and input values
\* ------------------------------------------------------------------------

\* number of initGunDB calls in one run
MaxInitCalls == 3
\* registerUser calls of userdb.js that can be in flight at once
MaxRegCalls == 2

\* validation thresholds of registerUser / loginUser
MinUsernameLen == 3
MinPasswordLen == 8
MinPhoneLen == 7
MinCountryCodeLen == 1

Alice == <<"a", "l", "i">>
Bob == <<"b", "o", "b">>
ShortName == <<"a", "l">>
PassA == <<"p", "a", "s", "s", "w", "o", "r", "A">>
PassB == <<"p", "a", "s", "s", "w", "o", "r", "B">>
ShortPass == <<"p", "a", "s", "s", "w", "o", "r">>
EmailA == <<"a", "@", "x">>
EmailB == <<"b", "@", "x">>
NoAtEmail == <<"a", "x">>
PhoneA == <<"5", "5", "5", "0", "0", "0", "1">>
PhoneB == <<"5", "5", "5", "0", "0", "0", "2">>
ShortPhone == <<"5", "5", "5", "0", "0", "0">>
Cc1 == <<"1">>
Cc2 == <<"4", "4">>
EmptyStr == <<>>
\* the placeholder literal 'any' of the recovery functions
AnyLit == <<"a", "n", "y">>

Aliases == {Alice, Bob}

\* public keys SEA hands out, in order of account creation
Pub1 == <<"pub1">>
Pub2 == <<"pub2">>
Pubs == {Pub1, Pub2}

\* Gun.time.is()
Now == <<"time">>

\* ------------------------------------------------------------------------
\* State
\* ------------------------------------------------------------------------
VARIABLES
  gunInstance,     \* db_core.js:29  0 = null, k = the k-th Gun instance created
  userInstance,    \* db_core.js:30  0 = null, k = the k-th user instance created
  usersRootNode,   \* db_core.js:31  0 = null, k = the k-th 'users' node created
  created,         \* how many Gun(), .user() and .get('users') objects were constructed
  initP,           \* promises returned by initGunDB, in call order
  outListener,     \* index in initP of the promise the 'out' listener settles, 0 = none
  timer,           \* index in initP of the promise the pending 7 s timer rejects, 0 = none
  okSeen,          \* an 'out' event with msg.ok was delivered to the listener
  accounts,        \* SEA: alias -> Null or [pass, pub]
  userIs,          \* SEA session (user.is): Null or [pub, alias]
  profiles,        \* graph below 'users': pub -> Null or the node's data
  isUserLoggedIn,  \* db_core.js:49
  currentUserData, \* db_core.js:50
  dom,             \* textContent of the message elements
  reg,             \* the registerUser call in flight
  login,           \* the loginUser call in flight
  check,           \* the checkLoginStatus call in flight and its user.on subscription
  chg,             \* the change*Permanently call in flight
  rec,             \* the recover* call in flight
  priv,            \* the getPrivateUserAttributes call in flight
  emailIndexNode,  \* userdb.js:8  0 = null, else the 'email_index' node
  phoneIndexNode,  \* userdb.js:8  0 = null, else the 'phone_index' node
  emailIndex,      \* graph below 'email_index': email -> Undefined or the pub put there
  phoneIndex,      \* graph below 'phone_index': country code + phone -> Undefined or the pub
  ureg,            \* the registerUser calls of userdb.js in flight
  last             \* what the latest task did to which promise

initVars == <<gunInstance, userInstance, usersRootNode, created, initP, outListener, timer, okSeen>>
seaVars == <<accounts, userIs>>
globVars == <<isUserLoggedIn, currentUserData>>
callVars == <<reg, login, check, chg, rec, priv>>
indexVars == <<emailIndexNode, phoneIndexNode, emailIndex, phoneIndex, ureg>>
vars == <<initVars, seaVars, profiles, globVars, dom, callVars, indexVars, last>>

\* values for registerUser of userdb.js: emails and passwords its validation accepts
UEmailA == <<"a", "@", "x", ".", "y">>
UEmailB == <<"b", "@", "x", ".", "y">>
UEmails == {UEmailA, UEmailB}
StrongA == <<"A", "a", "1", "!", "a", "a", "a", "a">>
StrongB == <<"B", "b", "2", "!", "b", "b", "b", "b">>
\* `${d.country_code}${d.phone}` of the phones used
UFullPhones == {c \o ph : c \in {Cc1, Cc2}, ph \in {PhoneA, PhoneB}}

Elements == {"app-status", "reg-message", "login-message", "status-nav-message",
             "login-status-placeholder",
             "change-username-message", "change-email-message", "change-password-message",
             "change-phone-message", "change-cc-message",
             "rec-user-message", "rec-email-message", "rec-phone-message", "rec-cc-message"}

Idle == [pc |-> "idle"]

\* the record of the latest task: the operation, the promise outcome it
\* produced ("none" while the promise stays pending) and the resolved value
\* or error message
Did(op, outcome, value) ==
  [op |-> op, step |-> "", outcome |-> outcome, value |-> value, arg |-> <<>>]

\* the same, naming the step of the operation (call or callback) and what it
\* was given: the call's argument and the library's ack
DidStep(op, step, outcome, value, arg) ==
  [op |-> op, step |-> step, outcome |-> outcome, value |-> value, arg |-> arg]

Init ==
  /\ gunInstance = 0
  /\ userInstance = 0
  /\ usersRootNode = 0
  /\ created = [gun |-> 0, user |-> 0, users |-> 0]
  /\ initP = <<>>
  /\ outListener = 0
  /\ timer = 0
  /\ okSeen = FALSE
  /\ accounts = [a \in Aliases |-> Null]
  /\ userIs = Null
  /\ profiles = [p \in Pubs |-> Null]
  /\ isUserLoggedIn = FALSE
  /\ currentUserData = Null
  /\ dom = [e \in Elements |-> <<>>]
  /\ reg = Idle
  /\ login = Idle
  /\ check = Idle
  /\ chg = Idle
  /\ rec = Idle
  /\ priv = Idle
  /\ emailIndexNode = 0
  /\ phoneIndexNode = 0
  /\ emailIndex = [e \in UEmails |-> Undefined]
  /\ phoneIndex = [f \in UFullPhones |-> Undefined]
  /\ ureg = [i \in 1..MaxRegCalls |-> Idle]
  /\ last = Did("load", "none", <<>>)

\* ------------------------------------------------------------------------
\* displayMessage and the getters
\* ------------------------------------------------------------------------

\* displayMessage(elementId, message): the page holds every message element
displayMessage(d, elementId, message) == [d EXCEPT ![elementId] = message]

getUserInstance == userInstance
getUsersRootNode == usersRootNode

\* getCurrentUserPub(): the pub, or Undefined standing for the null it returns
getCurrentUserPub ==
  IF isUserLoggedIn /\ currentUserData # Null /\ Truthy(Get(currentUserData, "pub"))
  THEN currentUserData.pub
  ELSE Undefined

\* ------------------------------------------------------------------------
\* initGunDB
\* ------------------------------------------------------------------------

\* resolve / reject of promise i: only the first settlement counts
Settle(ps, i, outcome) ==
  IF ps[i].state = "pending" THEN [ps EXCEPT ![i].state = outcome] ELSE ps

\* if (gunInstance) { ... resolve(); return; }
AlreadyInitialized_NoGuard == FALSE
AlreadyInitialized == gunInstance # 0

\* where the library may throw inside the try block
GunThrows == {"none", "Gun", "user", "get"}

InitGunDB ==
  /\ Len(initP) < MaxInitCalls
  /\ UNCHANGED <<seaVars, profiles, globVars, callVars, indexVars, okSeen>>
  /\ LET me == Len(initP) + 1 IN
     IF AlreadyInitialized
     THEN /\ dom' = displayMessage(dom, "app-status", <<"Database already initialized.">>)
          /\ initP' = Append(initP, [state |-> "resolved", creator |-> FALSE])
          /\ last' = Did("initGunDB", "resolved", <<>>)
          /\ UNCHANGED <<gunInstance, userInstance, usersRootNode, created, outListener, timer>>
     ELSE \E thr \in GunThrows :
          /\ gunInstance' = IF thr = "Gun" THEN gunInstance ELSE created.gun + 1
          /\ userInstance' = IF thr \in {"Gun", "user"} THEN userInstance ELSE created.user + 1
          /\ usersRootNode' = IF thr = "none" THEN created.users + 1 ELSE usersRootNode
          /\ created' = [gun |-> IF thr = "Gun" THEN created.gun ELSE created.gun + 1,
                         user |-> IF thr \in {"Gun", "user"} THEN created.user ELSE created.user + 1,
                         users |-> IF thr = "none" THEN created.users + 1 ELSE created.users]
          /\ IF thr = "none"
             THEN /\ outListener' = me
                  /\ timer' = me
                  /\ dom' = displayMessage(dom, "app-status", <<"Initializing database connection...">>)
                  /\ initP' = Append(initP, [state |-> "pending", creator |-> TRUE])
                  /\ last' = Did("initGunDB", "none", <<>>)
             ELSE /\ UNCHANGED <<outListener, timer>>
                  /\ dom' = displayMessage(dom, "app-status", <<"Failed to initialize database: ", thr>>)
                  /\ initP' = Append(initP, [state |-> "rejected", creator |-> TRUE])
                  /\ last' = Did("initGunDB", "rejected", <<thr>>)

\* messages the library passes to the 'out' listener
OutMsgs == [err : {Undefined, <<"e">>}, ok : BOOLEAN]

\* else if (msg.ok) { ... resolve(); }
OutResolves_AnyMsg(msg) == TRUE
OutResolves(msg) == msg.ok

\* gunInstance.on('out', function(msg){ ... }); noPeers is !gunInstance._.opt.peers.length
OutEvent ==
  /\ outListener # 0
  /\ UNCHANGED <<gunInstance, userInstance, usersRootNode, created, outListener, timer,
                 seaVars, profiles, globVars, callVars, indexVars>>
  /\ \E msg \in OutMsgs, noPeers \in BOOLEAN :
       /\ okSeen' = (okSeen \/ msg.ok)
       /\ IF Truthy(msg.err)
          THEN /\ dom' = displayMessage(dom, "app-status", <<"Database connection error: ", msg.err>>)
               /\ initP' = IF noPeers THEN Settle(initP, outListener, "rejected") ELSE initP
               /\ last' = Did("out", IF noPeers /\ initP[outListener].state = "pending"
                                      THEN "rejected" ELSE "none", <<>>)
          ELSE IF OutResolves(msg)
          THEN /\ dom' = displayMessage(dom, "app-status", <<"Database connected successfully!">>)
               /\ initP' = Settle(initP, outListener, "resolved")
               /\ last' = Did("out", IF initP[outListener].state = "pending"
                                      THEN "resolved" ELSE "none", <<>>)
          ELSE /\ UNCHANGED <<dom, initP>>
               /\ last' = Did("out", "none", <<>>)

\* setTimeout(() => { if (!gunInstance._.opt.peers.length) { ... reject(...) } }, 7000)
InitTimeout ==
  /\ timer # 0
  /\ timer' = 0
  /\ UNCHANGED <<gunInstance, userInstance, usersRootNode, created, outListener, okSeen,
                 seaVars, profiles, globVars, callVars, indexVars>>
  /\ \E noPeers \in BOOLEAN :
       IF noPeers
       THEN /\ dom' = displayMessage(dom, "app-status", <<"Database connection timed out. Retrying...">>)
            /\ initP' = Settle(initP, timer, "rejected")
            /\ last' = Did("timeout", IF initP[timer].state = "pending" THEN "rejected" ELSE "none", <<>>)
       ELSE /\ UNCHANGED <<dom, initP>>
            /\ last' = Did("timeout", "none", <<>>)

NextInit == InitGunDB \/ OutEvent \/ InitTimeout

SpecInit == Init /\ [][NextInit]_vars

\* a single initGunDB call, for the specifications about the account functions
InitGunDBOnce == Len(initP) = 0 /\ InitGunDB

\* ------------------------------------------------------------------------
\* The library: SEA accounts and the graph below 'users'
\* ------------------------------------------------------------------------

Account(alias) == IF alias \in Aliases THEN accounts[alias] ELSE Null

\* the key pair SEA generates for the next account
NextPub == IF \A a \in Aliases : accounts[a] = Null THEN Pub1 ELSE Pub2

\* ack of user.create(alias, pass, cb); busy: SEA is already creating or authenticating
CreateAck(alias, pass, busy) ==
  IF busy THEN [err |-> <<"User is already being created or authenticated!">>]
  ELSE IF alias \notin Aliases \/ Account(alias) # Null THEN [err |-> <<"User already created!">>]
  ELSE [err |-> Undefined, pub |-> NextPub]

\* ack of user.auth(alias, pass, cb): ack.err, or ack.sea.pub
AuthAck(alias, pass, busy) ==
  IF busy THEN [err |-> <<"User is already being created or authenticated!">>]
  ELSE IF Account(alias) = Null \/ Account(alias).pass # pass THEN [err |-> <<"Wrong user or password.">>]
  ELSE [err |-> Undefined, pub |-> Account(alias).pub]

\* the session a successful auth leaves in user.is
SessionAfter(ack, alias) == IF Truthy(ack.err) THEN userIs ELSE [pub |-> ack.pub, alias |-> alias]

\* Gun's metadata property of a node
Meta == [k \in {"_"} |-> <<"meta">>]

\* what usersNode.get(pub).once(cb) passes to cb: undefined (Null here) or the node with its metadata
ReadNode(pub) ==
  IF pub \notin Pubs \/ profiles[pub] = Null THEN Null ELSE Spread(profiles[pub], Meta)

\* usersNode.get(pub).put(obj): merges obj into the node
PutNode(pub, obj) == [profiles EXCEPT ![pub] = Spread(profiles[pub], obj)]

\* ------------------------------------------------------------------------
\* registerUser
\* ------------------------------------------------------------------------

\* the negation of the validation condition of registerUser
ValidRegistration_OffByOne(d) ==
  /\ d # Null
  /\ IsString(Get(d, "username")) /\ Len(d.username) >= MinUsernameLen - 1
  /\ IsString(Get(d, "email")) /\ Includes(d.email, "@")
  /\ IsString(Get(d, "password")) /\ Len(d.password) >= MinPasswordLen
  /\ IsString(Get(d, "phone")) /\ Len(d.phone) >= MinPhoneLen
  /\ IsString(Get(d, "countryCode")) /\ Len(d.countryCode) >= MinCountryCodeLen
ValidRegistration(d) ==
  /\ d # Null
  /\ IsString(Get(d, "username")) /\ Len(d.username) >= MinUsernameLen
  /\ IsString(Get(d, "email")) /\ Includes(d.email, "@")
  /\ IsString(Get(d, "password")) /\ Len(d.password) >= MinPasswordLen
  /\ IsString(Get(d, "phone")) /\ Len(d.phone) >= MinPhoneLen
  /\ IsString(Get(d, "countryCode")) /\ Len(d.countryCode) >= MinCountryCodeLen

InvalidRegistrationMsg ==
  <<"Invalid registration data. Please check username (min 3), email, password (min 8), phone (min 7), and country code.">>
NotInitializedMsg == <<"Database not fully initialized. Please try again.">>

\* registerUser(userData) up to user.create
RegisterCall(userData) ==
  /\ reg.pc = "idle"
  /\ UNCHANGED <<initVars, indexVars, seaVars, profiles, globVars, login, check, chg, rec, priv>>
  /\ IF ~ValidRegistration(userData)
     THEN /\ dom' = displayMessage(dom, "reg-message", InvalidRegistrationMsg)
          /\ reg' = reg
          /\ last' = DidStep("registerUser", "call", "rejected", InvalidRegistrationMsg, userData)
     ELSE /\ dom' = displayMessage(dom, "reg-message", <<"Attempting user registration...">>)
          /\ IF getUserInstance = 0 \/ getUsersRootNode = 0
             THEN /\ reg' = reg
                  /\ last' = DidStep("registerUser", "call", "rejected", NotInitializedMsg, userData)
             ELSE /\ reg' = [pc |-> "create", data |-> userData]
                  /\ last' = DidStep("registerUser", "call", "none", <<>>, userData)

\* callback of user.create
RegCreateCb ==
  /\ reg.pc = "create"
  /\ UNCHANGED <<initVars, indexVars, userIs, profiles, globVars, login, check, chg, rec, priv>>
  /\ \E busy \in BOOLEAN :
       LET ack == CreateAck(reg.data.username, reg.data.password, busy) IN
       IF Truthy(ack.err)
       THEN LET m == <<"Registration failed: ", ack.err[1], ". Username might already exist.">> IN
            /\ dom' = displayMessage(dom, "reg-message", m)
            /\ accounts' = accounts
            /\ reg' = Idle
            /\ last' = DidStep("registerUser", "create", "rejected", m, reg.data)
       ELSE /\ accounts' = [accounts EXCEPT ![reg.data.username] =
                              [pass |-> reg.data.password, pub |-> ack.pub]]
            /\ dom' = dom
            /\ reg' = [reg EXCEPT !.pc = "auth"]
            /\ last' = DidStep("registerUser", "create", "none", <<>>, reg.data)

\* the node registerUser stores under users/<pub>
RegisteredProfile(d) ==
  [username |-> d.username, email |-> d.email, phone |-> d.phone,
   countryCode |-> d.countryCode, createdAt |-> Now, lastLogin |-> Now,
   isRegistered |-> <<"true">>, createdOn |-> <<"true">>]

\* callback of the user.auth that follows user.create; the awaited put chain
\* is no thenable of the imported modules, so the rest runs in the same task
RegAuthCb ==
  /\ reg.pc = "auth"
  /\ UNCHANGED <<initVars, indexVars, accounts, login, check, chg, rec, priv>>
  /\ reg' = Idle
  /\ \E busy \in BOOLEAN :
       LET d == reg.data
           ack == AuthAck(d.username, d.password, busy) IN
       IF Truthy(ack.err)
       THEN LET m == <<"Registration successful, but auto-login failed: ", ack.err[1]>> IN
            /\ dom' = displayMessage(dom, "reg-message", m)
            /\ UNCHANGED <<userIs, profiles, globVars>>
            /\ last' = DidStep("registerUser", "auth", "rejected", m, d)
       ELSE /\ userIs' = SessionAfter(ack, d.username)
            /\ profiles' = PutNode(ack.pub, RegisteredProfile(d))
            /\ isUserLoggedIn' = TRUE
            /\ currentUserData' = [pub |-> ack.pub, alias |-> d.username, email |-> d.email,
                                   phone |-> d.phone, countryCode |-> d.countryCode,
                                   createdAt |-> Now, lastLogin |-> Now]
            /\ dom' = displayMessage(dom, "reg-message",
                                     <<"Registration successful! You are now logged in.">>)
            /\ last' = DidStep("registerUser", "auth", "resolved",
                               <<"Registration successful and logged in.">>, d)

\* ------------------------------------------------------------------------
\* loginUser
\* ------------------------------------------------------------------------

ValidLogin(d) ==
  /\ d # Null
  /\ IsString(Get(d, "username")) /\ Len(d.username) >= MinUsernameLen
  /\ IsString(Get(d, "password")) /\ Len(d.password) >= MinPasswordLen

InvalidLoginMsg == <<"Invalid login data. Please provide a valid username and password.">>
LoginFailedMsg(err) == <<"Login failed: ", err[1], ". Please check your username and password.">>

\* loginUser(loginData) up to user.auth
LoginCall(loginData) ==
  /\ login.pc = "idle"
  /\ UNCHANGED <<initVars, indexVars, seaVars, profiles, globVars, reg, check, chg, rec, priv>>
  /\ IF ~ValidLogin(loginData)
     THEN /\ dom' = displayMessage(dom, "login-message", InvalidLoginMsg)
          /\ login' = login
          /\ last' = DidStep("loginUser", "call", "rejected", InvalidLoginMsg, [data |-> loginData])
     ELSE /\ dom' = displayMessage(dom, "login-message", <<"Attempting login...">>)
          /\ IF getUserInstance = 0 \/ getUsersRootNode = 0
             THEN /\ login' = login
                  /\ last' = DidStep("loginUser", "call", "rejected", NotInitializedMsg,
                                     [data |-> loginData])
             ELSE /\ login' = [pc |-> "auth", data |-> loginData]
                  /\ last' = DidStep("loginUser", "call", "none", <<>>, [data |-> loginData])

\* the globals after the auth callback: untouched on ack.err, else logged in
\* with the pub of the ack and the submitted username
LoginAuthGlobals_SetFirst(ack, loginData) ==
  [logged |-> TRUE, data |-> [pub |-> Get(ack, "pub"), alias |-> loginData.username]]
LoginAuthGlobals(ack, loginData) ==
  IF Truthy(ack.err)
  THEN [logged |-> isUserLoggedIn, data |-> currentUserData]
  ELSE [logged |-> TRUE, data |-> [pub |-> ack.pub, alias |-> loginData.username]]

\* callback of user.auth
LoginAuthCb ==
  /\ login.pc = "auth"
  /\ UNCHANGED <<initVars, indexVars, accounts, profiles, reg, check, chg, rec, priv>>
  /\ \E busy \in BOOLEAN :
       LET d == login.data
           ack == AuthAck(d.username, d.password, busy)
           g == LoginAuthGlobals(ack, d) IN
       /\ isUserLoggedIn' = g.logged
       /\ currentUserData' = g.data
       /\ userIs' = SessionAfter(ack, d.username)
       /\ IF Truthy(ack.err)
          THEN /\ dom' = displayMessage(dom, "login-message", LoginFailedMsg(ack.err))
               /\ login' = Idle
               /\ last' = DidStep("loginUser", "auth", "rejected", LoginFailedMsg(ack.err),
                                  [data |-> d, ack |-> ack])
          ELSE /\ dom' = dom
               /\ login' = [pc |-> "once", data |-> d, pub |-> ack.pub]
               /\ last' = DidStep("loginUser", "auth", "none", <<>>, [data |-> d, ack |-> ack])

\* callback of usersNode.get(userPub).once
LoginOnceCb ==
  /\ login.pc = "once"
  /\ UNCHANGED <<initVars, indexVars, seaVars, isUserLoggedIn, reg, check, chg, rec, priv>>
  /\ LET data == ReadNode(login.pub) IN
     /\ currentUserData' = IF data # Null THEN Spread(currentUserData, data) ELSE currentUserData
     /\ profiles' = PutNode(login.pub, [lastLogin |-> Now])
     /\ dom' = displayMessage(dom, "login-message", <<"Login successful!">>)
     /\ login' = Idle
     /\ last' = DidStep("loginUser", "once", "resolved", <<"Login successful.">>,
                        [data |-> login.data, pub |-> login.pub])

\* ------------------------------------------------------------------------
\* logoutUser
\* ------------------------------------------------------------------------

\* user.leave(); isUserLoggedIn = false; currentUserData = null;
LogoutEffect_KeepsData == [is |-> Null, logged |-> FALSE, data |-> currentUserData]
LogoutEffect == [is |-> Null, logged |-> FALSE, data |-> Null]

\* logoutUser(): one task; throws: user.leave() throws into the catch block
Logout ==
  /\ UNCHANGED <<initVars, indexVars, accounts, profiles, callVars>>
  /\ IF getUserInstance = 0
     THEN /\ UNCHANGED <<userIs, globVars, dom>>
          /\ last' = DidStep("logoutUser", "call", "rejected",
                             <<"User instance not initialized. Cannot log out.">>, <<>>)
     ELSE \E throws \in BOOLEAN :
          IF throws
          THEN /\ UNCHANGED <<userIs, globVars, dom>>
               /\ last' = DidStep("logoutUser", "call", "rejected", <<"Failed to log out: ">>, <<>>)
          ELSE /\ userIs' = LogoutEffect.is
               /\ isUserLoggedIn' = LogoutEffect.logged
               /\ currentUserData' = LogoutEffect.data
               /\ dom' = displayMessage(dom, "status-nav-message", <<"You have been logged out.">>)
               /\ last' = DidStep("logoutUser", "call", "resolved", <<"Logged out successfully.">>, <<>>)

\* ------------------------------------------------------------------------
\* checkLoginStatus
\* ------------------------------------------------------------------------

\* resolve of the check promise: only the first settlement counts
CheckResolve(value) == IF check.settled THEN "none" ELSE "resolved"

\* `Logged in as: ${currentUserData.alias || 'Unknown User'}`
LoggedInAs(cud) ==
  <<"Logged in as: ", IF Truthy(Get(cud, "alias")) THEN cud.alias ELSE <<"Unknown User">>>>

\* checkLoginStatus() up to user.on; a new call is made once the previous promise is settled
CheckCall ==
  /\ check.pc = "idle" \/ (check.pc = "on" /\ check.settled)
  /\ UNCHANGED <<initVars, indexVars, seaVars, profiles, reg, login, chg, rec, priv>>
  /\ IF getUserInstance = 0
     THEN /\ isUserLoggedIn' = FALSE
          /\ currentUserData' = Null
          /\ dom' = displayMessage(dom, "login-status-placeholder", <<"Application not ready.">>)
          /\ check' = check
          /\ last' = DidStep("checkLoginStatus", "call", "resolved", <<"false">>, <<>>)
     ELSE /\ UNCHANGED <<globVars, dom>>
          /\ check' = [pc |-> "on", settled |-> FALSE]
          /\ last' = DidStep("checkLoginStatus", "call", "none", <<>>, <<>>)

\* the event user.on delivers: the session's pub and alias, or neither
SessionEvent == IF userIs = Null THEN [pub |-> Undefined, alias |-> Undefined] ELSE userIs

\* callback of user.on
CheckOnEvent ==
  /\ check.pc = "on"
  /\ UNCHANGED <<initVars, indexVars, seaVars, profiles, reg, login, chg, rec, priv>>
  /\ LET ack == SessionEvent IN
     IF Truthy(ack.pub)
     THEN /\ isUserLoggedIn' = TRUE
          /\ currentUserData' = [pub |-> ack.pub, alias |-> ack.alias]
          /\ IF getUsersRootNode # 0
             THEN /\ dom' = dom
                  /\ check' = [pc |-> "once", settled |-> check.settled, pub |-> ack.pub]
                  /\ last' = DidStep("checkLoginStatus", "on", "none", <<>>, ack)
             ELSE /\ dom' = displayMessage(dom, "login-status-placeholder",
                                           LoggedInAs(currentUserData') \o <<" (partial data)">>)
                  /\ check' = [pc |-> "on", settled |-> TRUE]
                  /\ last' = DidStep("checkLoginStatus", "on", CheckResolve(TRUE), <<"true">>, ack)
     ELSE /\ isUserLoggedIn' = FALSE
          /\ currentUserData' = Null
          /\ dom' = displayMessage(dom, "login-status-placeholder", <<"Not Logged In">>)
          /\ check' = [pc |-> "on", settled |-> TRUE]
          /\ last' = DidStep("checkLoginStatus", "on", CheckResolve(FALSE), <<"false">>, ack)

\* callback of usersNode.get(currentUserData.pub).once; reading .alias of a
\* null currentUserData throws, and the promise is then never settled
CheckOnceCb ==
  /\ check.pc = "once"
  /\ UNCHANGED <<initVars, indexVars, seaVars, profiles, isUserLoggedIn, reg, login, chg, rec, priv>>
  /\ LET data == ReadNode(check.pub)
         cud == IF data # Null THEN Spread(currentUserData, data) ELSE currentUserData IN
     /\ currentUserData' = cud
     /\ IF cud = Null
        THEN /\ dom' = dom
             /\ check' = [pc |-> "on", settled |-> check.settled]
             /\ last' = DidStep("checkLoginStatus", "once", "none", <<"TypeError">>, [pub |-> check.pub])
        ELSE /\ dom' = displayMessage(dom, "login-status-placeholder", LoggedInAs(cud))
             /\ check' = [pc |-> "on", settled |-> TRUE]
             /\ last' = DidStep("checkLoginStatus", "once", CheckResolve(TRUE), <<"true">>,
                                [pub |-> check.pub])

\* ------------------------------------------------------------------------
\* getPrivateUserAttributes
\* ------------------------------------------------------------------------

UnauthorizedMsg ==
  <<"Unauthorized: Cannot access private attributes for another user or not logged in.">>

\* the negation of: !isUserLoggedIn || getCurrentUserPub() !== pub
PrivAuthorized(pub) == isUserLoggedIn /\ getCurrentUserPub = pub

\* const { _, username, createdAt, ...privateData } = data
PrivateData(data) == [k \in Keys(data) \ {"_", "username", "createdAt"} |-> data[k]]

\* getPrivateUserAttributes(pub) up to the .once it registers
PrivCall(pub) ==
  /\ priv.pc = "idle"
  /\ UNCHANGED <<initVars, indexVars, seaVars, profiles, globVars, dom, reg, login, check, chg, rec>>
  /\ IF ~Truthy(pub)
     THEN /\ priv' = priv
          /\ last' = DidStep("getPrivateUserAttributes", "call", "rejected",
                             <<"Public key is required.">>, [pub |-> pub])
     ELSE IF ~PrivAuthorized(pub)
     THEN /\ priv' = priv
          /\ last' = DidStep("getPrivateUserAttributes", "call", "rejected",
                             UnauthorizedMsg, [pub |-> pub])
     ELSE IF getUsersRootNode = 0
     THEN /\ priv' = priv
          /\ last' = DidStep("getPrivateUserAttributes", "call", "rejected",
                             <<"Database not initialized.">>, [pub |-> pub])
     ELSE /\ priv' = [pc |-> "once", pub |-> pub]
          /\ last' = DidStep("getPrivateUserAttributes", "call", "none", <<>>, [pub |-> pub])

\* callback of usersNode.get(pub).once
PrivOnceCb ==
  /\ priv.pc = "once"
  /\ UNCHANGED <<initVars, indexVars, seaVars, profiles, globVars, dom, reg, login, check, chg, rec>>
  /\ priv' = Idle
  /\ LET data == ReadNode(priv.pub) IN
     last' = DidStep("getPrivateUserAttributes", "once", "resolved",
                     IF data # Null THEN PrivateData(data) ELSE Null, [pub |-> priv.pub])

\* ------------------------------------------------------------------------
\* saveUserProfile, loadUserProfile, updateUserProfileField
\* ------------------------------------------------------------------------

\* saveUserProfile(pub, profileData): the put and its ack, which only settles
\* the promise, as one task; ackErr: the library acks with an error
SaveUserProfile(pub, profileData, ackErr) ==
  /\ UNCHANGED <<initVars, indexVars, seaVars, globVars, dom, callVars>>
  /\ IF ~Truthy(pub)
     THEN /\ profiles' = profiles
          /\ last' = DidStep("saveUserProfile", "call", "rejected",
                             <<"Invalid public key provided for saving profile.">>, <<>>)
     ELSE IF profileData = Null
     THEN /\ profiles' = profiles
          /\ last' = DidStep("saveUserProfile", "call", "rejected",
                             <<"Invalid profile data provided. Must be an object.">>, <<>>)
     ELSE IF getUsersRootNode = 0
     THEN /\ profiles' = profiles
          /\ last' = DidStep("saveUserProfile", "call", "rejected",
                             <<"Database root node not initialized.">>, <<>>)
     ELSE /\ profiles' = PutNode(pub, profileData)
          /\ last' = IF ackErr
                     THEN DidStep("saveUserProfile", "call", "rejected", <<"Failed to save profile: ">>, <<>>)
                     ELSE DidStep("saveUserProfile", "call", "resolved",
                                  <<"User profile saved successfully.">>, <<>>)

\* const { _, ...profileData } = data
StripMeta(data) == [k \in Keys(data) \ {"_"} |-> data[k]]

\* what loadUserProfile(pub) resolves with: the node without metadata, or null
LoadedProfile(pub) == IF ReadNode(pub) = Null THEN Null ELSE StripMeta(ReadNode(pub))

\* the guard of updateUserProfileField(pub, field, value): pub and field are non-empty strings
UpdateArgsValid(pub, field) == Truthy(pub) /\ field # ""

\* usersNode.get(pub).get(field).put(value)
PutField(pub, field, value) ==
  [profiles EXCEPT ![pub] = Spread(profiles[pub], [k \in {field} |-> value])]

\* ------------------------------------------------------------------------
\* verifyCurrentCredentialsForChange and the change*Permanently functions
\* ------------------------------------------------------------------------

ChangeKinds == {"username", "email", "password", "phone", "countryCode"}

\* the profile field a kind of change writes: 'username', 'email', 'phone', 'countryCode'
ChangeField(kind) == kind

ChangeElement(kind) ==
  CASE kind = "username" -> "change-username-message"
    [] kind = "email" -> "change-email-message"
    [] kind = "password" -> "change-password-message"
    [] kind = "phone" -> "change-phone-message"
    [] kind = "countryCode" -> "change-cc-message"

ChangeFailed(kind, text) == <<"Failed to change ", kind, ": ", text>>

\* profile && profile.email === current_email && profile.phone === current_phone
\*         && profile.countryCode === current_cc
ProfileMatches_NoEmail(profile, oldData) ==
  /\ profile # Null
  /\ Get(profile, "phone") = Get(oldData, "current_phone")
  /\ Get(profile, "countryCode") = Get(oldData, "current_cc")
ProfileMatches(profile, oldData) ==
  /\ profile # Null
  /\ Get(profile, "email") = Get(oldData, "current_email")
  /\ Get(profile, "phone") = Get(oldData, "current_phone")
  /\ Get(profile, "countryCode") = Get(oldData, "current_cc")

\* change<Kind>Permanently(oldData, newValue) up to the user.auth of the verification
ChangeCall(kind, oldData, newValue) ==
  /\ chg.pc = "idle"
  /\ UNCHANGED <<initVars, indexVars, seaVars, profiles, globVars, reg, login, check, rec, priv>>
  /\ LET arg == [kind |-> kind, oldData |-> oldData, newValue |-> newValue] IN
     IF oldData = Null \/ ~Truthy(newValue)
     THEN /\ UNCHANGED <<dom, chg>>
          /\ last' = DidStep("change", "call", "rejected", <<"Missing old data or new ", kind>>, arg)
     ELSE IF getUserInstance = 0 \/ ~isUserLoggedIn
     THEN LET m == ChangeFailed(kind, "User not logged in or database not ready for verification.") IN
          /\ dom' = displayMessage(dom, ChangeElement(kind), m)
          /\ chg' = chg
          /\ last' = DidStep("change", "call", "rejected", m, arg)
     ELSE IF getCurrentUserPub = Undefined
     THEN LET m == ChangeFailed(kind, "Current user public key not found.") IN
          /\ dom' = displayMessage(dom, ChangeElement(kind), m)
          /\ chg' = chg
          /\ last' = DidStep("change", "call", "rejected", m, arg)
     ELSE /\ dom' = displayMessage(dom, ChangeElement(kind), <<"Changing ", kind, "...">>)
          /\ chg' = [pc |-> "auth", kind |-> kind, oldData |-> oldData, newValue |-> newValue,
                     currentPub |-> getCurrentUserPub]
          /\ last' = DidStep("change", "call", "none", <<>>, arg)

\* callback of the user.auth of verifyCurrentCredentialsForChange
ChgAuthCb ==
  /\ chg.pc = "auth"
  /\ UNCHANGED <<initVars, indexVars, accounts, profiles, globVars, reg, login, check, rec, priv>>
  /\ \E busy \in BOOLEAN :
       LET old == chg.oldData
           ack == AuthAck(Get(old, "current_username"), Get(old, "current_password"), busy)
           arg == [kind |-> chg.kind, oldData |-> old, newValue |-> chg.newValue,
                   currentPub |-> chg.currentPub, ack |-> ack]
           fail(text) ==
             /\ dom' = displayMessage(dom, ChangeElement(chg.kind), ChangeFailed(chg.kind, text))
             /\ chg' = Idle
             /\ last' = DidStep("change", "auth", "rejected", ChangeFailed(chg.kind, text), arg) IN
       /\ userIs' = SessionAfter(ack, Get(old, "current_username"))
       /\ IF Truthy(ack.err) THEN fail("Authentication failed: ")
          ELSE IF ack.pub # chg.currentPub
          THEN fail("Authentication mismatch: Provided credentials do not belong to the logged-in user.")
          ELSE IF getUsersRootNode = 0
          THEN fail("Failed to load profile for full verification: Database root node not initialized.")
          ELSE /\ dom' = dom
               /\ chg' = [chg EXCEPT !.pc = "load"]
               /\ last' = DidStep("change", "auth", "none", <<>>, arg)

\* callback of the .once of loadUserProfile(currentPub), with the continuations
\* it resolves: the comparison, then updateUserProfileField(currentUserProfile.pub, ...)
ChgLoadCb ==
  /\ chg.pc = "load"
  /\ UNCHANGED <<initVars, indexVars, seaVars, globVars, reg, login, check, rec, priv>>
  /\ LET profile == LoadedProfile(chg.currentPub)
         target == Get(profile, "pub")
         arg == [kind |-> chg.kind, oldData |-> chg.oldData, newValue |-> chg.newValue,
                 currentPub |-> chg.currentPub, target |-> target]
         fail(text) ==
           /\ dom' = displayMessage(dom, ChangeElement(chg.kind), ChangeFailed(chg.kind, text))
           /\ profiles' = profiles
           /\ chg' = Idle
           /\ last' = DidStep("change", "load", "rejected", ChangeFailed(chg.kind, text), arg) IN
     IF ~ProfileMatches(profile, chg.oldData)
     THEN fail("Provided current email, phone, or country code do not match registered account.")
     ELSE IF chg.kind = "password"
     THEN /\ dom' = displayMessage(dom, ChangeElement(chg.kind),
                                   <<"Password changed successfully (simulated).">>)
          /\ profiles' = profiles
          /\ chg' = Idle
          /\ last' = DidStep("change", "load", "resolved", <<"Password changed successfully.">>, arg)
     ELSE IF ~UpdateArgsValid(target, ChangeField(chg.kind))
     THEN fail("Invalid public key or field name provided for update.")
     ELSE IF getUsersRootNode = 0
     THEN fail("Database root node not initialized.")
     ELSE /\ profiles' = PutField(target, ChangeField(chg.kind), chg.newValue)
          /\ dom' = dom
          /\ chg' = [pc |-> "ack", kind |-> chg.kind, oldData |-> chg.oldData,
                     newValue |-> chg.newValue, currentPub |-> chg.currentPub, target |-> target]
          /\ last' = DidStep("change", "load", "none", <<>>, arg)

\* ack callback of the put of updateUserProfileField
ChgPutAck ==
  /\ chg.pc = "ack"
  /\ UNCHANGED <<initVars, indexVars, seaVars, profiles, globVars, reg, login, check, rec, priv>>
  /\ chg' = Idle
  /\ \E ackErr \in BOOLEAN :
       LET arg == [kind |-> chg.kind, oldData |-> chg.oldData, newValue |-> chg.newValue,
                   currentPub |-> chg.currentPub, target |-> chg.target, ackErr |-> ackErr] IN
       IF ackErr
       THEN LET m == ChangeFailed(chg.kind, "Failed to update field: ") IN
            /\ dom' = displayMessage(dom, ChangeElement(chg.kind), m)
            /\ last' = DidStep("change", "ack", "rejected", m, arg)
       ELSE /\ dom' = displayMessage(dom, ChangeElement(chg.kind), <<chg.kind, " changed to ", chg.newValue>>)
            /\ last' = DidStep("change", "ack", "resolved", <<chg.kind, " changed successfully.">>, arg)

\* ------------------------------------------------------------------------
\* verifyRecoveryCredentials and the recover* functions
\* ------------------------------------------------------------------------

RecoverKinds == {"username", "email", "phone", "countryCode"}

RecoverElement(kind) ==
  CASE kind = "username" -> "rec-user-message"
    [] kind = "email" -> "rec-email-message"
    [] kind = "phone" -> "rec-phone-message"
    [] kind = "countryCode" -> "rec-cc-message"

\* the three arguments each function requires
RecoverArgs(kind) ==
  CASE kind = "username" -> {"email", "phone", "password"}
    [] kind = "email" -> {"phone", "password", "username"}
    [] kind = "phone" -> {"username", "email", "password"}
    [] kind = "countryCode" -> {"username", "email", "password"}

\* the property each function fills with the literal 'any'
RecoverPlaceholder(kind) ==
  CASE kind = "username" -> "username"
    [] kind = "email" -> "email"
    [] kind = "phone" -> "phone"
    [] kind = "countryCode" -> "countryCode"

\* the object handed to verifyRecoveryCredentials: the arguments and the placeholder
RecoveryInput(kind, a) ==
  [k \in RecoverArgs(kind) \cup {RecoverPlaceholder(kind)} |->
     IF k = RecoverPlaceholder(kind) THEN AnyLit ELSE a[k]]

\* profile && profile.email === inputData.email && profile.phone === inputData.phone
\*         && profile.countryCode === inputData.countryCode
RecoveryMatches(profile, inputData) ==
  /\ profile # Null
  /\ Get(profile, "email") = Get(inputData, "email")
  /\ Get(profile, "phone") = Get(inputData, "phone")
  /\ Get(profile, "countryCode") = Get(inputData, "countryCode")

RecoveryFailed(text) == <<"Recovery failed: ", text>>

\* recover<Kind>(...) up to the user.auth of verifyRecoveryCredentials; a holds the three arguments
RecoverCall(kind, a) ==
  /\ rec.pc = "idle"
  /\ UNCHANGED <<initVars, indexVars, seaVars, profiles, globVars, reg, login, check, chg, priv>>
  /\ LET arg == [kind |-> kind, args |-> a] IN
     IF \E k \in RecoverArgs(kind) : ~Truthy(a[k])
     THEN /\ UNCHANGED <<dom, rec>>
          /\ last' = DidStep("recover", "call", "rejected", <<"All recovery details are required.">>, arg)
     ELSE IF getUserInstance = 0 \/ ~isUserLoggedIn
     THEN LET m == RecoveryFailed("User not logged in or database not ready for verification.") IN
          /\ dom' = displayMessage(dom, RecoverElement(kind), m)
          /\ rec' = rec
          /\ last' = DidStep("recover", "call", "rejected", m, arg)
     ELSE /\ dom' = displayMessage(dom, RecoverElement(kind), <<"Attempting recovery...">>)
          /\ rec' = [pc |-> "auth", kind |-> kind, args |-> a, input |-> RecoveryInput(kind, a)]
          /\ last' = DidStep("recover", "call", "none", <<>>, arg)

\* callback of the user.auth of verifyRecoveryCredentials
RecAuthCb ==
  /\ rec.pc = "auth"
  /\ UNCHANGED <<initVars, indexVars, accounts, profiles, globVars, reg, login, check, chg, priv>>
  /\ \E busy \in BOOLEAN :
       LET ack == AuthAck(rec.input.username, rec.input.password, busy)
           arg == [kind |-> rec.kind, args |-> rec.args, ack |-> ack]
           fail(text) ==
             /\ dom' = displayMessage(dom, RecoverElement(rec.kind), RecoveryFailed(text))
             /\ rec' = Idle
             /\ last' = DidStep("recover", "auth", "rejected", RecoveryFailed(text), arg) IN
       /\ userIs' = SessionAfter(ack, rec.input.username)
       /\ IF Truthy(ack.err) THEN fail("Verification failed: ")
          ELSE IF getUsersRootNode = 0
          THEN fail("Failed to load profile for verification: Database root node not initialized.")
          ELSE /\ dom' = dom
               /\ rec' = [pc |-> "load", kind |-> rec.kind, args |-> rec.args,
                          input |-> rec.input, pub |-> ack.pub]
               /\ last' = DidStep("recover", "auth", "none", <<>>, arg)

\* callback of the .once of loadUserProfile(ack.sea.pub), with the continuations it resolves
RecLoadCb ==
  /\ rec.pc = "load"
  /\ UNCHANGED <<initVars, indexVars, seaVars, profiles, globVars, reg, login, check, chg, priv>>
  /\ rec' = Idle
  /\ LET profile == LoadedProfile(rec.pub)
         arg == [kind |-> rec.kind, args |-> rec.args, pub |-> rec.pub] IN
     IF RecoveryMatches(profile, rec.input)
     THEN /\ dom' = displayMessage(dom, RecoverElement(rec.kind),
                                   <<"Your ", rec.kind, " is: ", Get(profile, rec.kind)>>)
          /\ last' = DidStep("recover", "load", "resolved", Get(profile, rec.kind), arg)
     ELSE LET m == RecoveryFailed("Provided recovery details do not match registered account.") IN
          /\ dom' = displayMessage(dom, RecoverElement(rec.kind), m)
          /\ last' = DidStep("recover", "load", "rejected", m, arg)

\* ------------------------------------------------------------------------
\* userdb.js: validation, initGunDB and registerUser with its email and phone index
\* ------------------------------------------------------------------------

UpperChars == {"A", "B", "C", "D", "E", "F", "G", "H", "I", "J", "K", "L", "M",
               "N", "O", "P", "Q", "R", "S", "T", "U", "V", "W", "X", "Y", "Z"}
LowerChars == {"a", "b", "c", "d", "e", "f", "g", "h", "i", "j", "k", "l", "m",
               "n", "o", "p", "q", "r", "s", "t", "u", "v", "w", "x", "y", "z"}
DigitChars == {"0", "1", "2", "3", "4", "5", "6", "7", "8", "9"}
SpecialChars == {"!", "@", "#", "$", "%", "^", "&", "*", "(", ")", ",", ".", "?",
                 "\"", ":", "{", "}", "|", "<", ">"}
\* the characters \s matches that a form field can hold
SpaceChars == {" ", "\t", "\n", "\r"}

\* x || ''
OrEmpty(x) == IF IsString(x) THEN x ELSE <<>>

\* /^[^\s@]+@[^\s@]+\.[^\s@]+$/.test(e||'')
isValidEmail(e) ==
  LET t == OrEmpty(e) IN
  \E i \in 1..Len(t), j \in 1..Len(t) :
    /\ t[i] = "@" /\ t[j] = "."
    /\ 2 <= i /\ i + 2 <= j /\ j + 1 <= Len(t)
    /\ \A k \in 1..Len(t) : k # i => t[k] \notin SpaceChars \cup {"@"}

\* length>=8 with an upper-case letter, a lower-case letter, a digit and a special character
isStrongPass(pw) ==
  LET t == OrEmpty(pw) IN
  /\ Len(t) >= MinPasswordLen
  /\ \E k \in 1..Len(t) : t[k] \in UpperChars
  /\ \E k \in 1..Len(t) : t[k] \in LowerChars
  /\ \E k \in 1..Len(t) : t[k] \in DigitChars
  /\ \E k \in 1..Len(t) : t[k] \in SpecialChars

\* length>=7 && /^[0-9\s\-()+]*$/
isValidPhone(ph) ==
  LET t == OrEmpty(ph) IN
  /\ Len(t) >= MinPhoneLen
  /\ \A k \in 1..Len(t) : t[k] \in DigitChars \cup SpaceChars \cup {"-", "(", ")", "+"}

\* the negation of the validation condition of registerUser (userdb.js)
UValidRegistration(d) ==
  /\ Truthy(d.username) /\ Len(d.username) >= MinUsernameLen
  /\ isValidEmail(d.email)
  /\ isStrongPass(d.password)
  /\ isValidPhone(d.phone)
  /\ Len(d.country_code) >= MinCountryCodeLen

\* const cPN = `${d.country_code}${d.phone}`
FullPhone(d) == d.country_code \o d.phone

\* initGunDB of userdb.js up to the listener and the timer it registers
UInitGunDB ==
  /\ Len(initP) < MaxInitCalls
  /\ UNCHANGED <<seaVars, profiles, globVars, callVars, okSeen,
                 emailIndex, phoneIndex, ureg>>
  /\ LET me == Len(initP) + 1 IN
     IF gunInstance # 0
     THEN /\ initP' = Append(initP, [state |-> "resolved", creator |-> FALSE])
          /\ last' = Did("initGunDB", "resolved", <<>>)
          /\ UNCHANGED <<gunInstance, userInstance, usersRootNode, created, outListener, timer,
                         emailIndexNode, phoneIndexNode, dom>>
     ELSE /\ gunInstance' = created.gun + 1
          /\ userInstance' = created.user + 1
          /\ usersRootNode' = created.users + 1
          /\ created' = [gun |-> created.gun + 1, user |-> created.user + 1,
                         users |-> created.users + 1]
          /\ emailIndexNode' = 1
          /\ phoneIndexNode' = 1
          /\ initP' = Append(initP, [state |-> "pending", creator |-> TRUE])
          /\ outListener' = me
          /\ timer' = me
          /\ dom' = displayMessage(dom, "app-status", <<"Initializing database connection...">>)
          /\ last' = Did("initGunDB", "none", <<>>)

\* the lowest free slot for a call
FreeSlot(i) == ureg[i].pc = "idle" /\ \A j \in 1..(i - 1) : ureg[j].pc # "idle"

\* SEA is creating or authenticating for another call (its user.create was accepted)
SeaBusy(i) ==
  \E j \in 1..MaxRegCalls : j # i /\ ureg[j].pc \in {"create", "auth"} /\ ~ureg[j].busy

\* registerUser(d) of userdb.js up to the .once on the email index
URegisterCall(d) ==
  \E i \in 1..MaxRegCalls :
    /\ FreeSlot(i)
    /\ UNCHANGED <<initVars, seaVars, profiles, globVars, callVars,
                   emailIndexNode, phoneIndexNode, emailIndex, phoneIndex>>
    /\ IF ~UValidRegistration(d)
       THEN /\ UNCHANGED <<dom, ureg>>
            /\ last' = DidStep("userdb.registerUser", "call", "rejected",
                               <<"Invalid registration data.">>, d)
       ELSE /\ dom' = displayMessage(dom, "reg-message", <<"Attempting registration...">>)
            /\ IF userInstance = 0 \/ usersRootNode = 0 \/ emailIndexNode = 0 \/ phoneIndexNode = 0
               THEN /\ ureg' = ureg
                    /\ last' = DidStep("userdb.registerUser", "call", "rejected",
                                       <<"DB not fully initialized.">>, d)
               ELSE /\ ureg' = [ureg EXCEPT ![i] = [pc |-> "email", data |-> d]]
                    /\ last' = DidStep("userdb.registerUser", "call", "none", <<>>, d)

\* callback of eI.get(d.email).once, then the .once on the phone index
UEmailCb(i) ==
  /\ ureg[i].pc = "email"
  /\ UNCHANGED <<initVars, seaVars, profiles, globVars, dom, callVars,
                 emailIndexNode, phoneIndexNode, emailIndex, phoneIndex>>
  /\ LET d == ureg[i].data IN
     IF Truthy(emailIndex[d.email])
     THEN /\ ureg' = [ureg EXCEPT ![i] = Idle]
          /\ last' = DidStep("userdb.registerUser", "email", "rejected",
                             <<"Email already in use.">>, d)
     ELSE /\ ureg' = [ureg EXCEPT ![i] = [pc |-> "phone", data |-> d]]
          /\ last' = DidStep("userdb.registerUser", "email", "none", <<>>, d)

\* callback of pI.get(cPN).once, then u.create(d.username, d.password, ...)
UPhoneCb(i) ==
  /\ ureg[i].pc = "phone"
  /\ UNCHANGED <<initVars, seaVars, profiles, globVars, dom, callVars,
                 emailIndexNode, phoneIndexNode, emailIndex, phoneIndex>>
  /\ LET d == ureg[i].data IN
     IF Truthy(phoneIndex[FullPhone(d)])
     THEN /\ ureg' = [ureg EXCEPT ![i] = Idle]
          /\ last' = DidStep("userdb.registerUser", "phone", "rejected",
                             <<"Phone number with this country code already in use.">>, d)
     ELSE /\ ureg' = [ureg EXCEPT ![i] = [pc |-> "create", data |-> d, busy |-> SeaBusy(i)]]
          /\ last' = DidStep("userdb.registerUser", "phone", "none", <<>>, d)

\* callback of u.create, then u.auth(d.username, d.password, ...)
UCreateCb(i) ==
  /\ ureg[i].pc = "create"
  /\ UNCHANGED <<initVars, userIs, profiles, globVars, dom, callVars,
                 emailIndexNode, phoneIndexNode, emailIndex, phoneIndex>>
  /\ LET d == ureg[i].data
         a == CreateAck(d.username, d.password, ureg[i].busy) IN
     IF Truthy(a.err)
     THEN /\ accounts' = accounts
          /\ ureg' = [ureg EXCEPT ![i] = Idle]
          /\ last' = DidStep("userdb.registerUser", "create", "rejected",
                             <<"Registration failed: ", a.err[1], ". Username might exist.">>, d)
     ELSE /\ accounts' = [accounts EXCEPT ![d.username] = [pass |-> d.password, pub |-> a.pub]]
          /\ ureg' = [ureg EXCEPT ![i] = [pc |-> "auth", data |-> d, busy |-> FALSE]]
          /\ last' = DidStep("userdb.registerUser", "create", "none", <<>>, d)

\* the node registerUser of userdb.js stores under users/<pub>
URegisteredProfile(d) ==
  [username |-> d.username, email |-> d.email, phone |-> d.phone,
   countryCode |-> d.country_code, createdAt |-> Now, lastLogin |-> Now,
   isRegistered |-> <<"true">>, createdOn |-> <<"true">>]

\* callback of u.auth: the profile put, the two index puts, the globals and the resolve
UAuthCb(i) ==
  /\ ureg[i].pc = "auth"
  /\ UNCHANGED <<initVars, accounts, dom, callVars, emailIndexNode, phoneIndexNode>>
  /\ ureg' = [ureg EXCEPT ![i] = Idle]
  /\ LET d == ureg[i].data
         aA == AuthAck(d.username, d.password, ureg[i].busy) IN
     IF Truthy(aA.err)
     THEN /\ UNCHANGED <<userIs, profiles, globVars, emailIndex, phoneIndex>>
          /\ last' = DidStep("userdb.registerUser", "auth", "rejected",
                             <<"Reg successful, but auto-login failed: ", aA.err[1]>>, d)
     ELSE /\ userIs' = SessionAfter(aA, d.username)
          /\ profiles' = PutNode(aA.pub, URegisteredProfile(d))
          /\ emailIndex' = [emailIndex EXCEPT ![d.email] = aA.pub]
          /\ phoneIndex' = [phoneIndex EXCEPT ![FullPhone(d)] = aA.pub]
          /\ isUserLoggedIn' = TRUE
          /\ currentUserData' = [pub |-> aA.pub, alias |-> d.username, email |-> d.email,
                                 phone |-> d.phone, countryCode |-> d.country_code,
                                 createdAt |-> Now, lastLogin |-> Now]
          /\ last' = DidStep("userdb.registerUser", "auth", "resolved",
                             <<"Registration successful and logged in.">>, [data |-> d, pub |-> aA.pub])

\* ------------------------------------------------------------------------
\* Specifications of the account functions
\* ------------------------------------------------------------------------

RegistrationA ==
  [username |-> Alice, email |-> EmailA, password |-> PassA, phone |-> PhoneA, countryCode |-> Cc1]
RegistrationB ==
  [username |-> Bob, email |-> EmailB, password |-> PassB, phone |-> PhoneB, countryCode |-> Cc2]

\* registration forms, valid and invalid in each field
RegInputs ==
  {Null} \cup [username : {Alice, ShortName, Undefined}, email : {EmailA, NoAtEmail},
               password : {PassA, ShortPass}, phone : {PhoneA, ShortPhone},
               countryCode : {Cc1, EmptyStr, Undefined}]

LoginInputs == [username : {Alice, ShortName}, password : {PassA, PassB, ShortPass}]

NextReg ==
  \/ InitGunDBOnce
  \/ \E d \in RegInputs : RegisterCall(d)
  \/ RegCreateCb
  \/ RegAuthCb

SpecReg == Init /\ [][NextReg]_vars

Next ==
  \/ InitGunDBOnce
  \/ RegisterCall(RegistrationA)
  \/ RegCreateCb
  \/ RegAuthCb
  \/ \E d \in LoginInputs : LoginCall(d)
  \/ LoginAuthCb
  \/ LoginOnceCb
  \/ Logout
  \/ CheckCall
  \/ CheckOnEvent
  \/ CheckOnceCb

Spec == Init /\ [][Next]_vars

\* the current credentials of the two registrations
OldDataA ==
  [current_username |-> Alice, current_password |-> PassA, current_email |-> EmailA,
   current_phone |-> PhoneA, current_cc |-> Cc1]

\* forms of a credential change: right, and wrong in one field each
ChangeInputs ==
  {Null, OldDataA,
   [OldDataA EXCEPT !.current_username = Bob],
   [OldDataA EXCEPT !.current_password = PassB],
   [OldDataA EXCEPT !.current_email = EmailB],
   [OldDataA EXCEPT !.current_phone = PhoneB],
   [OldDataA EXCEPT !.current_cc = Cc2]}

NewValue == <<"n", "e", "w">>

\* objects a caller saves as profile data
SaveInputs == {Null} \cup {[pub |-> p] : p \in Pubs}

\* a page holds one credential form: no other kind of change has written its message
OnlyKind(kind) == \A k \in ChangeKinds \ {kind} : dom[ChangeElement(k)] = <<>>

\* a call of one of the change*Permanently functions from the page's form
ChangeCallFromForm ==
  \E k \in ChangeKinds, d \in ChangeInputs, v \in {NewValue, Undefined} :
    OnlyKind(k) /\ ChangeCall(k, d, v)

SaveUserProfileCall == \E d \in SaveInputs, e \in BOOLEAN : SaveUserProfile(Pub1, d, e)

NextChange ==
  \/ InitGunDBOnce
  \/ RegisterCall(RegistrationA)
  \/ RegCreateCb
  \/ RegAuthCb
  \/ SaveUserProfileCall
  \/ ChangeCallFromForm
  \/ Logout
  \/ ChgAuthCb
  \/ ChgLoadCb
  \/ ChgPutAck

SpecChange == Init /\ [][NextChange]_vars

\* arguments of a recovery: those of registration A, and wrong or missing in one each
RecoveryA == [username |-> Alice, password |-> PassA, email |-> EmailA, phone |-> PhoneA]
RecoverInputs ==
  {RecoveryA,
   [RecoveryA EXCEPT !.username = Bob],
   [RecoveryA EXCEPT !.password = PassB],
   [RecoveryA EXCEPT !.email = EmailB],
   [RecoveryA EXCEPT !.phone = Undefined]}

\* a page holds one recovery form: no other kind of recovery has written its message
OnlyRecovery(kind) == \A k \in RecoverKinds \ {kind} : dom[RecoverElement(k)] = <<>>

\* a call of one of the recover* functions from the page's form
RecoverCallFromForm ==
  \E k \in RecoverKinds, a \in RecoverInputs : OnlyRecovery(k) /\ RecoverCall(k, a)

NextRecover ==
  \/ InitGunDBOnce
  \/ RegisterCall(RegistrationA)
  \/ RegCreateCb
  \/ RegAuthCb
  \/ RecoverCallFromForm
  \/ RecAuthCb
  \/ RecLoadCb

SpecRecover == Init /\ [][NextRecover]_vars

\* public keys a caller asks for: an account's, another's, and none
PrivInputs == Pubs \cup {Undefined, EmptyStr}

NextPriv ==
  \/ InitGunDBOnce
  \/ \E d \in {RegistrationA, RegistrationB} : RegisterCall(d)
  \/ RegCreateCb
  \/ RegAuthCb
  \/ Logout
  \/ \E p \in PrivInputs : PrivCall(p)
  \/ PrivOnceCb

SpecPriv == Init /\ [][NextPriv]_vars

\* userData of registerUser of userdb.js: a first account, then one with the
\* same email, one with the same phone, one sharing neither, and a weak password
URegistrationA ==
  [username |-> Alice, email |-> UEmailA, password |-> StrongA, phone |-> PhoneA,
   country_code |-> Cc1]
URegInputs ==
  {URegistrationA,
   [URegistrationA EXCEPT !.username = Bob, !.password = StrongB, !.phone = PhoneB],
   [URegistrationA EXCEPT !.username = Bob, !.password = StrongB, !.email = UEmailB],
   [URegistrationA EXCEPT !.username = Bob, !.password = StrongB, !.email = UEmailB,
                          !.phone = PhoneB, !.country_code = Cc2],
   [URegistrationA EXCEPT !.password = PassA]}

UInitGunDBOnce == Len(initP) = 0 /\ UInitGunDB

NextIndex ==
  \/ UInitGunDBOnce
  \/ \E d \in URegInputs : URegisterCall(d)
  \/ \E i \in 1..MaxRegCalls : UEmailCb(i)
  \/ \E i \in 1..MaxRegCalls : UPhoneCb(i)
  \/ \E i \in 1..MaxRegCalls : UCreateCb(i)
  \/ \E i \in 1..MaxRegCalls : UAuthCb(i)

SpecIndex == Init /\ [][NextIndex]_vars

\* ------------------------------------------------------------------------
\* Claims about initGunDB
\* ------------------------------------------------------------------------

\* C6 (as stated): every promise returned by initGunDB -- first, later or
\* concurrent call -- is resolved only after an 'out' event with ok was
\* observed.
C6_ResolvedOnlyWhenConnected ==
  \A i \in 1..Len(initP) : initP[i].state = "resolved" => okSeen

\* C6 (amended): the promise of the call that ran the initialisation is
\* resolved only after an 'out' event with ok was observed; a call that found
\* the instance already present is resolved at once, connected or not.
C6_CreatorResolvedOnlyWhenConnected ==
  \A i \in 1..Len(initP) :
    IF initP[i].creator
    THEN initP[i].state = "resolved" => okSeen
    ELSE initP[i].state = "resolved"

\* the initialising call was resolved by an ok event and a later call was made
C6_Witness ==
  /\ Len(initP) >= 2
  /\ initP[1].creator /\ initP[1].state = "resolved" /\ okSeen
  /\ ~initP[2].creator

\* C7: at most one Gun instance, one user instance and one 'users' node are
\* ever created, and a call made while the instance exists resolves and
\* leaves gunInstance, userInstance and usersRootNode unchanged.
C7_SingleInstance ==
  [][ /\ created'.gun <= 1 /\ created'.user <= 1 /\ created'.users <= 1
      /\ (last'.op = "initGunDB" /\ gunInstance # 0) =>
           /\ last'.outcome = "resolved"
           /\ UNCHANGED <<gunInstance, userInstance, usersRootNode, created>> ]_vars

\* a call was made after the one instance existed, and resolved
C7_Witness ==
  /\ Len(initP) >= 2
  /\ created = [gun |-> 1, user |-> 1, users |-> 1]
  /\ last.op = "initGunDB" /\ last.outcome = "resolved"

\* ------------------------------------------------------------------------
\* Claims about registerUser, loginUser, logoutUser and checkLoginStatus
\* ------------------------------------------------------------------------

\* C1: when the auth callback of loginUser reports an error, the promise is
\* rejected with a 'Login failed' error, that text is written to
\* 'login-message', and isUserLoggedIn and currentUserData keep their values.
C1_LoginAuthError ==
  [][ (last'.op = "loginUser" /\ last'.step = "auth" /\ Truthy(last'.arg.ack.err)) =>
        /\ last'.outcome = "rejected"
        /\ last'.value[1] = "Login failed: " /\ last'.value[2] = last'.arg.ack.err[1]
        /\ dom'["login-message"] = last'.value
        /\ UNCHANGED <<isUserLoggedIn, currentUserData>> ]_vars

\* a login with a wrong password failed while another user stayed logged in
C1_Witness ==
  /\ last.op = "loginUser" /\ last.step = "auth" /\ last.outcome = "rejected"
  /\ last.arg.ack.err = <<"Wrong user or password.">>
  /\ isUserLoggedIn /\ currentUserData # Null
  /\ dom["login-message"] = LoginFailedMsg(last.arg.ack.err)

\* C2: whenever a loginUser promise resolves, isUserLoggedIn is true and
\* currentUserData holds the pub of the authentication and the submitted
\* username as alias, in every interleaving with logoutUser and checkLoginStatus.
C2_ResolvedLoginIsLoggedIn ==
  (last.op = "loginUser" /\ last.outcome = "resolved") =>
    /\ isUserLoggedIn
    /\ currentUserData # Null
    /\ Get(currentUserData, "pub") = last.arg.pub
    /\ Get(currentUserData, "alias") = last.arg.data.username

\* C3: when logoutUser resolves, the SEA session has been left,
\* isUserLoggedIn is false and currentUserData is null; when the user instance
\* is not initialised, logoutUser rejects and changes neither.
C3_Logout ==
  [][ last'.op = "logoutUser" =>
        /\ last'.outcome = "resolved" =>
             userInstance # 0 /\ userIs' = Null /\ ~isUserLoggedIn' /\ currentUserData' = Null
        /\ userInstance = 0 =>
             last'.outcome = "rejected" /\ UNCHANGED <<isUserLoggedIn, currentUserData>> ]_vars

\* a logout of a registered, logged-in session resolved
C3_Witness ==
  /\ last.op = "logoutUser" /\ last.outcome = "resolved"
  /\ \E a \in Aliases : accounts[a] # Null
  /\ userIs = Null /\ ~isUserLoggedIn /\ currentUserData = Null
  /\ dom["reg-message"] = <<"Registration successful! You are now logged in.">>

\* C4: checkLoginStatus resolves with true, isUserLoggedIn = true and
\* currentUserData.pub the session's pub when the session event carries a pub;
\* it resolves with false, isUserLoggedIn = false and currentUserData = null
\* when the user instance is not initialised or the event carries no pub; the
\* resolved boolean equals isUserLoggedIn at the moment of resolution.
C4_CheckLoginStatus ==
  (last.op = "checkLoginStatus" /\ last.outcome = "resolved") =>
    IF last.step # "call" /\ Truthy(last.arg.pub)
    THEN /\ last.value = <<"true">>
         /\ isUserLoggedIn
         /\ currentUserData # Null /\ Get(currentUserData, "pub") = last.arg.pub
    ELSE /\ last.value = <<"false">>
         /\ ~isUserLoggedIn
         /\ currentUserData = Null

\* the words of C5: username shorter than 3, email without '@', password
\* shorter than 8, phone shorter than 7, country code missing or empty
C5_Rejectable(d) ==
  \/ d = Null
  \/ ~IsString(Get(d, "username")) \/ Len(d.username) < 3
  \/ ~Includes(d.email, "@")
  \/ Len(d.password) < 8
  \/ Len(d.phone) < 7
  \/ Get(d, "countryCode") = Undefined \/ Get(d, "countryCode") = EmptyStr

\* C5: registerUser rejects such data with 'Invalid registration data',
\* without user.create, without writing a node and without changing
\* isUserLoggedIn or currentUserData.
C5_InvalidRegistrationRejected ==
  [][ (last'.op = "registerUser" /\ last'.step = "call" /\ C5_Rejectable(last'.arg)) =>
        /\ last'.outcome = "rejected"
        /\ last'.value = InvalidRegistrationMsg
        /\ reg'.pc = "idle"
        /\ UNCHANGED <<accounts, userIs, profiles, isUserLoggedIn, currentUserData>> ]_vars

\* on an initialised database, a form whose only fault is the missing country
\* code was rejected
C5_Witness ==
  /\ userInstance # 0 /\ usersRootNode # 0
  /\ last.op = "registerUser" /\ last.step = "call" /\ last.outcome = "rejected"
  /\ last.value = InvalidRegistrationMsg
  /\ last.arg = [username |-> Alice, email |-> EmailA, password |-> PassA,
                 phone |-> PhoneA, countryCode |-> Undefined]

\* ------------------------------------------------------------------------
\* Claims about the change*Permanently functions
\* ------------------------------------------------------------------------

\* the supplied current username and password are those of the logged-in user's account
C8_AccountMatches(old, pub) ==
  /\ Account(Get(old, "current_username")) # Null
  /\ Account(Get(old, "current_username")).pass = Get(old, "current_password")
  /\ Account(Get(old, "current_username")).pub = pub

\* the supplied current email, phone and country code are those of the stored profile
C8_StoredMatches(old, pub) ==
  /\ profiles[pub] # Null
  /\ Get(profiles[pub], "email") = Get(old, "current_email")
  /\ Get(profiles[pub], "phone") = Get(old, "current_phone")
  /\ Get(profiles[pub], "countryCode") = Get(old, "current_cc")

\* C8: when a user is logged in and the supplied current username, password,
\* email, phone and country code all match that user's account, a change of
\* username, email, phone or country code writes the new value into that field
\* of users/<pub> of that user and is not rejected.
C8_ChangeWritesNewValue ==
  [][ ( /\ last'.op = "change" /\ chg.pc = "load" /\ chg.kind # "password"
        /\ isUserLoggedIn /\ getCurrentUserPub = chg.currentPub
        /\ C8_AccountMatches(chg.oldData, chg.currentPub)
        /\ C8_StoredMatches(chg.oldData, chg.currentPub) ) =>
        /\ last'.outcome # "rejected"
        /\ Get(profiles'[chg.currentPub], ChangeField(chg.kind)) = chg.newValue ]_vars

\* what makes the verification of the step being taken fail: nobody logged in
\* at the call, an auth ack with an error or another key, or a stored profile
\* that differs from the supplied email, phone or country code
C9_VerificationFails ==
  \/ chg.pc = "idle" /\ (getUserInstance = 0 \/ ~isUserLoggedIn)
  \/ chg.pc = "auth" /\ (IF Truthy(last'.arg.ack.err) THEN TRUE
                          ELSE last'.arg.ack.pub # chg.currentPub)
  \/ chg.pc = "load" /\ ~C8_StoredMatches(chg.oldData, chg.currentPub)

C10_Registered(kind, a, alias) ==
  /\ accounts[alias] # Null
  /\ accounts[alias].pass = a.password
  /\ profiles[accounts[alias].pub] # Null
  /\ \A k \in RecoverArgs(kind) \ {"password"} : Get(profiles[accounts[alias].pub], k) = a[k]

\* the library refused the auth because another create or auth was running
C10_LibraryBusy ==
  /\ last.step = "auth"
  /\ last.arg.ack.err = <<"User is already being created or authenticated!">>

\* C10: a recovery whose three supplied arguments are those of a registered
\* account is not rejected, and resolves with the registered value of the
\* field it recovers.
C10_RecoveryResolves ==
  (/\ last.op = "recover"
   /\ \E alias \in Aliases : C10_Registered(last.arg.kind, last.arg.args, alias)
   /\ ~C10_LibraryBusy) =>
    /\ last.outcome # "rejected"
    /\ last.outcome = "resolved" =>
         \E alias \in Aliases :
           /\ C10_Registered(last.arg.kind, last.arg.args, alias)
           /\ last.value = Get(profiles[accounts[alias].pub], last.arg.kind)

\* ------------------------------------------------------------------------
\* Claims about getPrivateUserAttributes
\* ------------------------------------------------------------------------

\* C11: getPrivateUserAttributes(pub) resolves with profile data only while a
\* user is logged in whose public key is pub.
C11_ResolvedOnlyWhileAuthorized ==
  (/\ last.op = "getPrivateUserAttributes" /\ last.outcome = "resolved"
   /\ last.value # Null) =>
    /\ isUserLoggedIn
    /\ currentUserData # Null
    /\ Get(currentUserData, "pub") = last.arg.pub

\* What the guard of getPrivateUserAttributes does establish: a call with a
\* non-empty pub reads the database only when, at the call, a user is logged
\* in whose public key is pub, and it
\* resolves only from such a read; a call made when nobody is logged in or
\* with another user's pub rejects with the 'Unauthorized' error and registers
\* no read.
PrivAuthorizedAtCall ==
  [][ last'.op = "getPrivateUserAttributes" =>
        /\ (last'.step = "call" /\ priv'.pc = "once") =>
             /\ isUserLoggedIn /\ currentUserData # Null
             /\ Get(currentUserData, "pub") = priv'.pub /\ priv'.pub = last'.arg.pub
        /\ (/\ last'.step = "call" /\ Truthy(last'.arg.pub)
            /\ (~isUserLoggedIn \/ currentUserData = Null
                \/ Get(currentUserData, "pub") # last'.arg.pub)) =>
             /\ last'.outcome = "rejected" /\ last'.value = UnauthorizedMsg
             /\ priv' = Idle
        /\ last'.outcome = "resolved" =>
             /\ priv.pc = "once" /\ priv.pub = last'.arg.pub
             /\ last'.value = (IF ReadNode(priv.pub) = Null THEN Null
                               ELSE PrivateData(ReadNode(priv.pub))) ]_vars

\* a logged-in user asked for the other account's private attributes and was refused
PrivRefused ==
  /\ last.op = "getPrivateUserAttributes" /\ last.step = "call"
  /\ last.outcome = "rejected" /\ last.value = UnauthorizedMsg
  /\ isUserLoggedIn /\ currentUserData # Null
  /\ last.arg.pub \in Pubs /\ profiles[last.arg.pub] # Null
  /\ Get(currentUserData, "pub") # last.arg.pub

\* ------------------------------------------------------------------------
\* Claims about registration and its email and phone index
\* ------------------------------------------------------------------------

\* C12: over any sequence or interleaving of register calls, no two
\* registered accounts have the same email address, and no two have the same
\* full phone number (country code + phone).
C12_UniqueEmailAndPhone ==
  \A p \in Pubs, q \in Pubs :
    (p # q /\ profiles[p] # Null /\ profiles[q] # Null) =>
      /\ profiles[p].email # profiles[q].email
      /\ profiles[p].countryCode \o profiles[p].phone
           # profiles[q].countryCode \o profiles[q].phone

====
